---- MODULE Spec2Model ----
(***************************************************************************)
(* Model of the order-label parser of Analyze_Your_Data.py.                *)
(*                                                                         *)
(* A text is a sequence of one-character strings.  Positions are 1-based;  *)
(* a search that finds nothing returns 0 (Python: -1).  The alphabet is    *)
(* ASCII: letters, digits, punctuation, the space, the tab and the line    *)
(* feed (the only line separator the model's texts contain).               *)
(***************************************************************************)
EXTENDS Integers, Sequences, FiniteSets, TLC

VARIABLES
    text,          \* per session: the text of the uploaded file ("extracted_text"), None without a file
    pc,            \* per session: position of the script run
    res,           \* per session: extract_from_text's dict "res" (later "fields")
    block,         \* per session: find_block's result
    status,        \* per session: what the insert reported: "none", "saved", "error"
    existing,      \* per session: init_db's list "existing"
    col,           \* per session: init_db's loop, as the index in EXPECTED_COLUMNS of its next column
    start_tokens,  \* find_block's argument
    end_tokens,    \* find_block's argument
    columns,       \* orders.db: column names of table orders (NoTable before it exists)
    rows,          \* orders.db: rows of table orders, oldest first
    autoincrement, \* orders.db: whether id was declared AUTOINCREMENT
    sequence       \* orders.db: the largest id given so far (table sqlite_sequence), 0 if none

vars == <<text, pc, res, block, status, existing, col, start_tokens, end_tokens,
          columns, rows, autoincrement, sequence>>

\* the state of one script run apart from its position
run == <<text, res, block, status, existing, col>>

\* the arguments of find_block
tokens == <<start_tokens, end_tokens>>

\* the database file, shared by the sessions
db == <<columns, rows, autoincrement, sequence>>

----------------------------------------------------------------------------
(* Characters and strings *)

Digit == {"0", "1", "2", "3", "4", "5", "6", "7", "8", "9"}

UpperSeq == <<"A", "B", "C", "D", "E", "F", "G", "H", "I", "J", "K", "L", "M",
              "N", "O", "P", "Q", "R", "S", "T", "U", "V", "W", "X", "Y", "Z">>

LowerSeq == <<"a", "b", "c", "d", "e", "f", "g", "h", "i", "j", "k", "l", "m",
              "n", "o", "p", "q", "r", "s", "t", "u", "v", "w", "x", "y", "z">>

Upper == {UpperSeq[i] : i \in 1..Len(UpperSeq)}

Letter == Upper \cup {LowerSeq[i] : i \in 1..Len(LowerSeq)}

\* \w of the re module (ASCII part)
WordChar == Letter \cup Digit \cup {"_"}

\* \s of the re module and the characters str.strip / str.split drop
Space == {" ", "\t", "\n"}

LowerOf == [c \in Upper |-> LowerSeq[CHOOSE i \in 1..Len(UpperSeq) : UpperSeq[i] = c]]

lower_char(c) == IF c \in Upper THEN LowerOf[c] ELSE c

\* str.lower
lower(s) == [i \in 1..Len(s) |-> lower_char(s[i])]

Min(S) == CHOOSE x \in S : \A y \in S : x <= y

Max(S) == CHOOSE x \in S : \A y \in S : x >= y

\* s[a:b] with a the first position taken and b the first position left out
Slice(s, a, b) == SubSeq(s, a, b - 1)

\* whether sub occurs in s at position i
occurs_at(s, sub, i) ==
    /\ i >= 1
    /\ i + Len(sub) - 1 <= Len(s)
    /\ \A k \in 1..Len(sub) : s[i + k - 1] = sub[k]

\* str.find(sub, from): the first position >= from where sub occurs, 0 if none
find(s, sub, from) ==
    LET hits == {i \in from..(Len(s) - Len(sub) + 1) : occurs_at(s, sub, i)}
    IN  IF hits = {} THEN 0 ELSE Min(hits)

\* Python's None
None == <<"None">>

\* str.strip
strip(s) ==
    LET keep == {i \in 1..Len(s) : s[i] \notin Space}
    IN  IF keep = {} THEN <<>> ELSE Slice(s, Min(keep), Max(keep) + 1)

\* the end (first position left out) of the run of characters of class C at position a
run_end(s, a, C) ==
    LET stops == {i \in a..Len(s) : s[i] \notin C}
    IN  IF stops = {} THEN Len(s) + 1 ELSE Min(stops)

\* the first position >= a of a character of class C, Len(s) + 1 if none
next_in(s, a, C) ==
    LET at == {i \in a..Len(s) : s[i] \in C}
    IN  IF at = {} THEN Len(s) + 1 ELSE Min(at)

\* [l.strip() for l in s.splitlines() if l.strip()]
RECURSIVE lines_from(_, _)
lines_from(s, a) ==
    IF a > Len(s) THEN <<>>
    ELSE LET e == next_in(s, a, {"\n"})
             l == strip(Slice(s, a, e))
         IN  (IF l = <<>> THEN <<>> ELSE <<l>>) \o lines_from(s, e + 1)

stripped_lines(s) == lines_from(s, 1)

\* str.split(): the maximal runs of characters that are not white space
RECURSIVE words_from(_, _)
words_from(s, a) ==
    LET b == run_end(s, a, Space)
    IN  IF b > Len(s) THEN <<>>
        ELSE LET e == next_in(s, b, Space)
             IN  <<Slice(s, b, e)>> \o words_from(s, e)

split(s) == words_from(s, 1)

\* sep.join(parts)
RECURSIVE join(_, _)
join(sep, parts) ==
    IF Len(parts) = 0 THEN <<>>
    ELSE IF Len(parts) = 1 THEN parts[1]
    ELSE parts[1] \o sep \o join(sep, Tail(parts))

\* str.replace(old, new): every occurrence, left to right, without overlap
RECURSIVE replace_from(_, _, _, _)
replace_from(s, old, new, a) ==
    LET i == find(s, old, a)
    IN  IF i = 0 THEN Slice(s, a, Len(s) + 1)
        ELSE Slice(s, a, i) \o new \o replace_from(s, old, new, i + Len(old))

replace(s, old, new) == replace_from(s, old, new, 1)

\* "sub in s"
contains(s, sub) == find(s, sub, 1) # 0

\* \b at position i: between s[i-1] and s[i], exactly one is a word character
is_word_at(s, i) == i >= 1 /\ i <= Len(s) /\ s[i] \in WordChar

boundary(s, i) == is_word_at(s, i - 1) # is_word_at(s, i)

\* \bLIT\b (re.I) at position i, LIT given in lower case, sl the lowered string
word_at(sl, lit, i) ==
    /\ occurs_at(sl, lit, i)
    /\ boundary(sl, i)
    /\ boundary(sl, i + Len(lit))

\* re.sub(r'\bLIT\b', '', s, flags=re.I)
RECURSIVE sub_word_from(_, _, _)
sub_word_from(s, lit, a) ==
    LET sl == lower(s)
        hits == {i \in a..(Len(s) - Len(lit) + 1) : word_at(sl, lit, i)}
    IN  IF hits = {} THEN Slice(s, a, Len(s) + 1)
        ELSE Slice(s, a, Min(hits)) \o sub_word_from(s, lit, Min(hits) + Len(lit))

sub_word(s, lit) == sub_word_from(s, lit, 1)

\* whether s starts with lit, ignoring case (lit given in lower case)
starts_with_ci(s, lit) == occurs_at(lower(s), lit, 1)

\* "NA", the value of a field that was not found
NA == <<"N", "A">>

----------------------------------------------------------------------------
(* find_block *)

\* a find_block that anchors on the marker occurring earliest in the text
find_block_start_earliest(tl, toks) ==
    LET at == {find(tl, lower(toks[k]), 1) : k \in 1..Len(toks)} \ {0}
    IN  IF at = {} THEN 0 ELSE Min(at)

\* lines 48-53: the position of the first start token, in list order, that occurs
find_block_start(tl, toks) ==
    LET present == {k \in 1..Len(toks) : find(tl, lower(toks[k]), 1) # 0}
    IN  IF present = {} THEN 0 ELSE find(tl, lower(toks[Min(present)]), 1)

\* lines 56-60: the nearest end token at or after start_idx, else the end of text
find_block_end(tl, toks, start_idx) ==
    LET ends == {find(tl, lower(toks[k]), start_idx) : k \in 1..Len(toks)} \ {0}
    IN  Min(ends \cup {Len(tl) + 1})

find_block(t, start_toks, end_toks) ==
    LET tl == lower(t)
        start_idx == find_block_start(tl, start_toks)
    IN  IF start_idx = 0
        THEN None
        ELSE Slice(t, start_idx, find_block_end(tl, end_toks, start_idx))

----------------------------------------------------------------------------
(* extract_customer_block *)

CustomerStartTokens ==
    <<<<"C", "u", "s", "t", "o", "m", "e", "r", " ", "A", "d", "d", "r", "e", "s", "s">>, <<"B", "i", "l", "l", " ", "T", "o", " ", "/", " ", "S", "h", "i", "p", " ", "T", "o">>, <<"B", "I", "L", "L", " ", "T", "O", " ", "/", " ", "S", "H", "I", "P", " ", "T", "O">>, <<"B", "I", "L", "L", " ", "T", "O">>,
      <<"S", "H", "I", "P", " ", "T", "O">>, <<"B", "I", "L", "L", " ", "T", "O", " ", "/", " ", "S", "H", "I", "P", " ", "T", "O">>, <<"B", "I", "L", "L", " ", "T", "O", " ", "/", " ", "S", "H", "I", "P", " ", "T", "O">>>>

CustomerEndTokens ==
    <<<<"I", "f", " ", "u", "n", "d", "e", "l", "i", "v", "e", "r", "e", "d">>, <<"S", "o", "l", "d", " ", "b", "y">>, <<"S", "o", "l", "d", " ", "b", "y", " ", ":">>, <<"G", "S", "T", "I", "N">>, <<"P", "u", "r", "c", "h", "a", "s", "e", " ", "O", "r", "d", "e", "r", " ", "N", "o">>,
      <<"D", "e", "s", "c", "r", "i", "p", "t", "i", "o", "n">>, <<"P", "r", "o", "d", "u", "c", "t", " ", "D", "e", "t", "a", "i", "l", "s">>, <<"P", "r", "o", "d", "u", "c", "t", " ", "D", "e", "t", "a", "i", "l", "s">>, <<"I", "n", "v", "o", "i", "c", "e", " ", "N", "o">>,
      <<"I", "n", "v", "o", "i", "c", "e", " ", "D", "a", "t", "e">>>>

\* re.sub(r'^(Prepaid:|COD:)\s*', '', s, flags=re.I)
drop_payment_prefix(s) ==
    LET lit == IF starts_with_ci(s, <<"p", "r", "e", "p", "a", "i", "d", ":">>) THEN <<"p", "r", "e", "p", "a", "i", "d", ":">>
               ELSE IF starts_with_ci(s, <<"c", "o", "d", ":">>) THEN <<"c", "o", "d", ":">>
               ELSE <<>>
    IN  IF lit = <<>> THEN s
        ELSE Slice(s, run_end(s, Len(lit) + 1, Space), Len(s) + 1)

clean_line_prefixes(line) ==
    LET l1 == drop_payment_prefix(line)
        l2 == replace(l1, <<"D", "o", " ", "n", "o", "t", " ", "c", "o", "l", "l", "e", "c", "t", " ", "c", "a", "s", "h">>, <<>>)
        l3 == sub_word(l2, <<"d", "e", "s", "t", "i", "n", "a", "t", "i", "o", "n", " ", "c", "o", "d", "e">>)
        l4 == sub_word(l3, <<"r", "e", "t", "u", "r", "n", " ", "c", "o", "d", "e">>)
    IN  strip(l4)

\* re.match(r'^(delhivery|pickup|destination code|return code|if undelivered)', nl, re.I)
ServiceLabels ==
    {<<"d", "e", "l", "h", "i", "v", "e", "r", "y">>, <<"p", "i", "c", "k", "u", "p">>, <<"d", "e", "s", "t", "i", "n", "a", "t", "i", "o", "n", " ", "c", "o", "d", "e">>, <<"r", "e", "t", "u", "r", "n", " ", "c", "o", "d", "e">>, <<"i", "f", " ", "u", "n", "d", "e", "l", "i", "v", "e", "r", "e", "d">>}

is_service_label(nl) == \E lit \in ServiceLabels : starts_with_ci(nl, lit)

\* re.sub(r'\b(Pickup|Destination Code|Return Code)\b.*$', '', l, flags=re.I).strip()
TrailingNoise == {<<"p", "i", "c", "k", "u", "p">>, <<"d", "e", "s", "t", "i", "n", "a", "t", "i", "o", "n", " ", "c", "o", "d", "e">>, <<"r", "e", "t", "u", "r", "n", " ", "c", "o", "d", "e">>}

cut_trailing_noise(l) ==
    LET ll == lower(l)
        hits == {i \in 1..Len(l) : \E lit \in TrailingNoise : word_at(ll, lit, i)}
    IN  IF hits = {} THEN strip(l) ELSE strip(Slice(l, 1, Min(hits)))

\* re.search(r'\b\d{6}\b', l)
has_pin(l) ==
    \E i \in 1..(Len(l) - 5) :
        /\ \A k \in 0..5 : l[i + k] \in Digit
        /\ boundary(l, i)
        /\ boundary(l, i + 6)

\* the character class [A-Za-z\.\-\s&]
NameChar == Letter \cup Space \cup {".", "-", "&"}

\* re.match(r'^([A-Za-z\.\-\s&]+)\s+\d', cand): the end of group 1 (0 if no match).
\* White space is in the class, so the greedy group gives back one character to \s+
\* and the digit is the first character outside the class.
name_before_digit(cand) ==
    LET r == run_end(cand, 1, NameChar)
    IN  IF r >= 3 /\ r <= Len(cand) /\ cand[r] \in Digit /\ cand[r - 1] \in Space
        THEN r - 2 ELSE 0

\* len(cand.split()) <= 8 and re.search(r'[A-Za-z]', cand)
is_short_line(cand) ==
    /\ Len(split(cand)) <= 8
    /\ \E i \in 1..Len(cand) : cand[i] \in Letter

\* re.sub(r'\s{2,}', ' ', s)
RECURSIVE collapse_from(_, _)
collapse_from(s, a) ==
    IF a > Len(s) THEN <<>>
    ELSE IF s[a] \in Space
    THEN LET e == run_end(s, a, Space)
         IN  (IF e - a >= 2 THEN <<" ">> ELSE <<s[a]>>) \o collapse_from(s, e)
    ELSE LET e == next_in(s, a, Space)
         IN  Slice(s, a, e) \o collapse_from(s, e)

collapse_spaces(s) == collapse_from(s, 1)

NotFound == [customer |-> NA, address |-> NA]

\* lines 102-127: name and address from the cleaned lines
infer_customer(cleaned) ==
    LET pins == {i \in 1..Len(cleaned) : has_pin(cleaned[i])}
    IN  IF pins # {}
        THEN LET pin_idx == Min(pins)
                 named == {i \in 1..pin_idx :
                              \/ name_before_digit(cleaned[i]) # 0
                              \/ is_short_line(cleaned[i])}
                 cand == cleaned[Min(named)]
                 customer ==
                     IF named = {}
                     THEN strip(Slice(cleaned[1], 1, next_in(cleaned[1], 1, {","})))
                     ELSE IF name_before_digit(cand) # 0
                     THEN strip(Slice(cand, 1, name_before_digit(cand) + 1))
                     ELSE cand
             IN  [customer |-> customer,
                  address |-> strip(join(<<" ">>, SubSeq(cleaned, 1, pin_idx)))]
        ELSE [customer |-> cleaned[1],
              address |-> IF Len(cleaned) > 1 THEN join(<<" ">>, Tail(cleaned))
                          ELSE cleaned[1]]

\* lines 129-136: final sanitization
sanitize_customer(c) ==
    LET customer == strip(drop_payment_prefix(c.customer))
        address1 == IF customer # <<>> /\ contains(c.address, customer)
                    THEN strip(replace(c.address, customer, <<>>))
                    ELSE c.address
        address == strip(collapse_spaces(address1))
    IN  [customer |-> IF customer = <<>> THEN NA ELSE customer,
         address |-> IF address = <<>> THEN NA ELSE address]

\* lines 75-136: the fields from the located block
customer_from_block(b) ==
    IF b = None \/ b = <<>>
    THEN NotFound
    ELSE LET lines == stripped_lines(b)
             nls == [i \in 1..Len(lines) |-> clean_line_prefixes(lines[i])]
             kept == SelectSeq(nls, LAMBDA nl : ~is_service_label(nl) /\ nl # <<>>)
             cleaned == [i \in 1..Len(kept) |-> cut_trailing_noise(kept[i])]
         IN  IF Len(kept) = 0 THEN NotFound
             ELSE sanitize_customer(infer_customer(cleaned))

extract_customer_block(t) ==
    customer_from_block(find_block(t, CustomerStartTokens, CustomerEndTokens))

----------------------------------------------------------------------------
(* extract_from_text: the field extractors *)

EXPECTED_COLUMNS ==
    <<"purchase_order_no", "invoice_no", "order_date", "invoice_date", "customer",
      "address", "product", "hsn", "sku", "size", "color", "qty", "gross_amount",
      "total_amount", "added_at">>

\* d[k] = v
put(d, k, v) == (k :> v) @@ d

\* d.setdefault(k, v)
setdefault(d, k, v) == IF k \in DOMAIN d THEN d ELSE put(d, k, v)

clean_amt(s) ==
    IF s = <<>> THEN s
    ELSE strip(replace(replace(replace(s, <<"R", "s", ".">>, <<>>), <<"R", "s">>, <<>>), <<",">>, <<>>))

is_digit_at(t, i) == i >= 1 /\ i <= Len(t) /\ t[i] \in Digit

is_in_at(t, i, C) == i >= 1 /\ i <= Len(t) /\ t[i] \in C

\* \.?\s*[:\-]?\s* from position a: where the greedy match ends
label_tail(t, a) ==
    LET a1 == IF is_in_at(t, a, {"."}) THEN a + 1 ELSE a
        a2 == run_end(t, a1, Space)
        a3 == IF is_in_at(t, a2, {":", "-"}) THEN a2 + 1 ELSE a2
    IN  run_end(t, a3, Space)

PoChar == Digit \cup {"_"}

\* re.search(r"Purchase Order No\.?\s*[:\-]?\s*([0-9_]+)", text, flags=re.I): group 1
po_label(t) ==
    LET tl == lower(t)
        lit == <<"p", "u", "r", "c", "h", "a", "s", "e", " ", "o", "r", "d", "e", "r", " ", "n", "o">>
        hits == {i \in 1..Len(t) : /\ occurs_at(tl, lit, i)
                                   /\ is_in_at(t, label_tail(t, i + Len(lit)), PoChar)}
    IN  IF hits = {} THEN None
        ELSE LET g == label_tail(t, Min(hits) + Len(lit))
             IN  Slice(t, g, run_end(t, g, PoChar))

\* re.findall(r"\b\d{12,24}\b", text), as the set of the matches' first positions
long_nums(t) ==
    {i \in 1..Len(t) : /\ is_digit_at(t, i)
                       /\ boundary(t, i)
                       /\ run_end(t, i, Digit) - i \in 12..24
                       /\ boundary(t, run_end(t, i, Digit))}

\* lines 145-159
purchase_order_step(t, r) ==
    IF po_label(t) # None
    THEN put(r, "purchase_order_no", po_label(t))
    ELSE LET nums == long_nums(t)
             good == {i \in nums : LET n == run_end(t, i, Digit) - i
                                   IN  n >= 12 /\ n # 6}
         IN  IF nums # {} /\ good # {}
             THEN put(r, "purchase_order_no",
                      Slice(t, Min(good), run_end(t, Min(good), Digit)))
             ELSE r

\* Invoice No\.?\s*[:\-]?\s*([^\s,\n]+) from position a, after the label: where group 1
\* starts (0 if no match).  The group's class holds "." ":" and "-", so when nothing
\* follows them the regex gives them back to the group.
invoice_group(t, a) ==
    LET dot == is_in_at(t, a, {"."})
        a2 == run_end(t, IF dot THEN a + 1 ELSE a, Space)
        mark == is_in_at(t, a2, {":", "-"})
        a3 == run_end(t, a2 + 1, Space)
        ok(p) == p <= Len(t) /\ t[p] \notin (Space \cup {","})
    IN  IF mark THEN (IF ok(a3) THEN a3 ELSE a2)
        ELSE IF ok(a2) THEN a2
        ELSE IF dot THEN a
        ELSE 0

\* lines 161-164
invoice_no_step(t, r) ==
    LET tl == lower(t)
        lit == <<"i", "n", "v", "o", "i", "c", "e", " ", "n", "o">>
        hits == {i \in 1..Len(t) : /\ occurs_at(tl, lit, i)
                                   /\ invoice_group(t, i + Len(lit)) # 0}
    IN  IF hits = {} THEN r
        ELSE LET g == invoice_group(t, Min(hits) + Len(lit))
             IN  put(r, "invoice_no", Slice(t, g, next_in(t, g, Space \cup {","})))

DateSep == {".", "/", "-"}

\* [F]?\d[./-] at position i: the position of the separator, 0 if no match
num_sep(t, i, F) ==
    IF is_in_at(t, i, F) /\ is_digit_at(t, i + 1) /\ is_in_at(t, i + 2, DateSep)
    THEN i + 2
    ELSE IF is_digit_at(t, i) /\ is_in_at(t, i + 1, DateSep) THEN i + 1
    ELSE 0

\* [0-3]?\d[./-][0-1]?\d[./-]\d{4}\b at i: the end of the match, 0 if none
date_dmy(t, i) ==
    LET s1 == num_sep(t, i, {"0", "1", "2", "3"})
        s2 == IF s1 = 0 THEN 0 ELSE num_sep(t, s1 + 1, {"0", "1"})
    IN  IF s2 # 0 /\ (\A k \in 1..4 : is_digit_at(t, s2 + k)) /\ boundary(t, s2 + 5)
        THEN s2 + 5 ELSE 0

\* \d{4}[./-][0-1]?\d[./-][0-3]?\d\b at i: the end of the match, 0 if none
date_ymd(t, i) ==
    LET s2 == IF (\A k \in 0..3 : is_digit_at(t, i + k)) /\ is_in_at(t, i + 4, DateSep)
              THEN num_sep(t, i + 5, {"0", "1"}) ELSE 0
        e == IF s2 = 0 THEN 0
             ELSE IF is_in_at(t, s2 + 1, {"0", "1", "2", "3"}) /\ is_digit_at(t, s2 + 2)
             THEN s2 + 3
             ELSE IF is_digit_at(t, s2 + 1) THEN s2 + 2
             ELSE 0
    IN  IF e # 0 /\ boundary(t, e) THEN e ELSE 0

\* date_re at position i: the end of the match, 0 if none
date_at(t, i) ==
    IF ~boundary(t, i) THEN 0
    ELSE IF date_dmy(t, i) # 0 THEN date_dmy(t, i)
    ELSE date_ymd(t, i)

\* \s*[:\-]?\s* from position a: where the greedy match ends
date_label_tail(t, a) ==
    LET a2 == run_end(t, a, Space)
        a3 == IF is_in_at(t, a2, {":", "-"}) THEN a2 + 1 ELSE a2
    IN  run_end(t, a3, Space)

\* re.search(LABEL + r"\s*[:\-]?\s*(" + date_re + ")", text, flags=re.I): group 1
labelled_date(t, lit) ==
    LET tl == lower(t)
        hits == {i \in 1..Len(t) : /\ occurs_at(tl, lit, i)
                                   /\ date_at(t, date_label_tail(t, i + Len(lit))) # 0}
    IN  IF hits = {} THEN None
        ELSE LET g == date_label_tail(t, Min(hits) + Len(lit))
             IN  Slice(t, g, date_at(t, g))

\* re.search(date_re, text): group 0
any_date(t) ==
    LET hits == {i \in 1..Len(t) : date_at(t, i) # 0}
    IN  IF hits = {} THEN None ELSE Slice(t, Min(hits), date_at(t, Min(hits)))

\* lines 166-178
dates_step(t, r) ==
    LET m_od == labelled_date(t, <<"o", "r", "d", "e", "r", " ", "d", "a", "t", "e">>)
        r1 == IF m_od # None THEN put(r, "order_date", m_od) ELSE r
        m_id == labelled_date(t, <<"i", "n", "v", "o", "i", "c", "e", " ", "d", "a", "t", "e">>)
        r2 == IF m_id # None THEN put(r1, "invoice_date", m_id) ELSE r1
    IN  IF "order_date" \notin DOMAIN r2 /\ any_date(t) # None
        THEN put(r2, "order_date", any_date(t))
        ELSE r2

\* the literals lits, in lower case, separated by \s+, at position i of the lowered
\* text tl: the end of the match, 0 if none
RECURSIVE match_words(_, _, _)
match_words(tl, i, lits) ==
    IF ~occurs_at(tl, lits[1], i) THEN 0
    ELSE IF Len(lits) = 1 THEN i + Len(lits[1])
    ELSE LET a == i + Len(lits[1])
             w == run_end(tl, a, Space)
         IN  IF w = a THEN 0 ELSE match_words(tl, w, Tail(lits))

\* re.search(r"SKU\s+Size\s+Qty\s+Color\s+Order No\.", text, flags=re.I): m.end(), 0 if none
SkuHeader == <<<<"s", "k", "u">>, <<"s", "i", "z", "e">>, <<"q", "t", "y">>, <<"c", "o", "l", "o", "r">>, <<"o", "r", "d", "e", "r", " ", "n", "o", ".">>>>

sku_label_end(t) ==
    LET tl == lower(t)
        hits == {i \in 1..Len(t) : match_words(tl, i, SkuHeader) # 0}
    IN  IF hits = {} THEN 0 ELSE match_words(tl, Min(hits), SkuHeader)

\* lines 181-188: the first non-empty line after the header, None if there is none
sku_block(t) ==
    IF sku_label_end(t) = 0 THEN None
    ELSE LET lines == lines_from(t, sku_label_end(t))
         IN  IF Len(lines) = 0 THEN None ELSE lines[1]

\* lines 189-204
sku_fields(parts, r) ==
    IF Len(parts) >= 5 /\ lower(parts[2]) = <<"f", "r", "e", "e">> /\ lower(parts[3]) = <<"s", "i", "z", "e">>
    THEN put(put(put(put(r, "sku", parts[1]), "size", <<"F", "r", "e", "e", " ", "S", "i", "z", "e">>), "qty", parts[4]),
             "color", IF Len(parts) > 4 THEN parts[5] ELSE NA)
    ELSE IF Len(parts) >= 4
    THEN put(put(put(put(r, "sku", parts[1]), "size", parts[2]), "qty", parts[3]),
             "color", parts[4])
    ELSE r

\* lines 180-204
sku_step(t, r) ==
    IF sku_block(t) = None \/ sku_block(t) = <<>> THEN r
    ELSE sku_fields(split(sku_block(t)), r)

AmountChar == Digit \cup {".", ","}

\* Rs\.?\s*([0-9\.,]+) at position p: where group 1 starts, 0 if no match.  A "."
\* that no amount follows is given back and becomes the group.
rs_amount(l, p) ==
    IF ~occurs_at(l, <<"R", "s">>, p) THEN 0
    ELSE LET a == p + Len(<<"R", "s">>)
             dot == is_in_at(l, a, {"."})
             a2 == run_end(l, IF dot THEN a + 1 ELSE a, Space)
         IN  IF is_in_at(l, a2, AmountChar) THEN a2
             ELSE IF dot THEN a
             ELSE 0

amount_from(l, g) == IF g = 0 THEN <<>> ELSE Slice(l, g, run_end(l, g, AmountChar))

\* \s+(\d{5,6})\s+(\d+)\s+Rs\.?\s*([0-9\.,]+) from position a: the groups' places
item_rest(l, a) ==
    LET h == run_end(l, a, Space)
        he == run_end(l, h, Digit)
        q == run_end(l, he, Space)
        qe == run_end(l, q, Digit)
        rs == run_end(l, qe, Space)
    IN  [ok |-> /\ h > a
                /\ he - h \in {5, 6}
                /\ q > he
                /\ qe > q
                /\ rs > qe
                /\ rs_amount(l, rs) # 0,
         hsn |-> Slice(l, h, he),
         qty |-> Slice(l, q, qe),
         amount |-> amount_from(l, rs_amount(l, rs))]

\* re.search(r"(.+?)\s+(\d{5,6})\s+(\d+)\s+Rs\.?\s*([0-9\.,]+)", line): the end of the
\* lazy group 1 (0 if no match); a match starts at the line's first character
item_match(l) ==
    LET hits == {g \in 1..Len(l) : item_rest(l, g + 1).ok}
    IN  IF hits = {} THEN 0 ELSE Min(hits)

\* a line-item extractor that always takes the line's quantity
item_fields_overwrite(l, r) ==
    LET g == item_match(l)
        m == item_rest(l, g + 1)
    IN  put(put(put(put(r, "product", strip(Slice(l, 1, g + 1))), "hsn", m.hsn),
                "qty", m.qty), "gross_amount", clean_amt(m.amount))

\* lines 210-221 for the first line that matches
item_fields(l, r) ==
    LET g == item_match(l)
        m == item_rest(l, g + 1)
        r1 == put(put(r, "product", strip(Slice(l, 1, g + 1))), "hsn", m.hsn)
        r2 == IF "qty" \notin DOMAIN r1 \/ r1["qty"] = NA
              THEN put(r1, "qty", m.qty) ELSE r1
    IN  put(r2, "gross_amount", clean_amt(m.amount))

\* (\d{5,6})\s+1\s+Rs\.?\s*([0-9\.,]+) with n digits at position p
simple_rest(l, p, n) ==
    LET one == run_end(l, p + n, Space)
        rs == run_end(l, one + 1, Space)
    IN  [ok |-> /\ \A k \in 0..(n - 1) : is_digit_at(l, p + k)
                /\ one > p + n
                /\ is_in_at(l, one, {"1"})
                /\ rs > one + 1
                /\ rs_amount(l, rs) # 0,
         hsn |-> IF p + n - 1 <= Len(l) THEN Slice(l, p, p + n) ELSE <<>>,
         amount |-> amount_from(l, rs_amount(l, rs))]

\* re.search(r"(\d{5,6})\s+1\s+Rs\.?\s*([0-9\.,]+)", line): the match, ok FALSE if none
simple_match(l) ==
    LET hits == {p \in 1..Len(l) : simple_rest(l, p, 6).ok \/ simple_rest(l, p, 5).ok}
    IN  IF hits = {} THEN [ok |-> FALSE]
        ELSE IF simple_rest(l, Min(hits), 6).ok THEN simple_rest(l, Min(hits), 6)
        ELSE simple_rest(l, Min(hits), 5)

Description == <<"D", "e", "s", "c", "r", "i", "p", "t", "i", "o", "n">>

\* lines 206-229
description_step(t, r) ==
    IF ~contains(t, Description) THEN r
    ELSE LET rest == Slice(t, find(t, Description, 1) + Len(Description), Len(t) + 1)
             lines == stripped_lines(rest)
             items == {i \in 1..Len(lines) : item_match(lines[i]) # 0}
             r1 == IF items = {} THEN r ELSE item_fields(lines[Min(items)], r)
             simple == {i \in 1..Len(lines) : simple_match(lines[i]).ok}
         IN  IF "product" \in DOMAIN r1 \/ simple = {} THEN r1
             ELSE LET m2 == simple_match(lines[Min(simple)])
                  IN  setdefault(setdefault(r1, "hsn", m2.hsn),
                                 "gross_amount", clean_amt(m2.amount))

\* lines 231-234
total_step(t, r) ==
    LET all_rs == {p \in 1..Len(t) : rs_amount(t, p) # 0}
    IN  IF all_rs = {} THEN r
        ELSE put(r, "total_amount", clean_amt(amount_from(t, rs_amount(t, Max(all_rs)))))

\* a normalizer that fills the missing fields with the empty string
normalize_step_blank(r) ==
    [k \in {EXPECTED_COLUMNS[i] : i \in 1..Len(EXPECTED_COLUMNS)} \cup DOMAIN r |->
        IF k \in DOMAIN r THEN r[k] ELSE <<>>]

\* lines 236-239
normalize_step(r) ==
    [k \in {EXPECTED_COLUMNS[i] : i \in 1..Len(EXPECTED_COLUMNS)} \cup DOMAIN r |->
        IF k \in DOMAIN r THEN r[k] ELSE NA]

\* lines 141-143
customer_step(t, r) == extract_customer_block(t) @@ r

extract_from_text(t) ==
    normalize_step(total_step(t, description_step(t, sku_step(t,
        dates_step(t, invoice_no_step(t, purchase_order_step(t,
            customer_step(t, <<>>))))))))

----------------------------------------------------------------------------
(* init_db and the orders table *)

\* the table does not exist yet (a table has at least one column)
NoTable == {}

\* SQL NULL
NULL == None

\* A column name is the sequence of its characters; these are the names the code
\* writes in its SQL statements: id (line 24) and those of EXPECTED_COLUMNS
Spelling ==
    [id |-> <<"i", "d">>,
     purchase_order_no |-> <<"p", "u", "r", "c", "h", "a", "s", "e", "_", "o", "r", "d", "e", "r", "_", "n", "o">>,
     invoice_no |-> <<"i", "n", "v", "o", "i", "c", "e", "_", "n", "o">>,
     order_date |-> <<"o", "r", "d", "e", "r", "_", "d", "a", "t", "e">>,
     invoice_date |-> <<"i", "n", "v", "o", "i", "c", "e", "_", "d", "a", "t", "e">>,
     customer |-> <<"c", "u", "s", "t", "o", "m", "e", "r">>,
     address |-> <<"a", "d", "d", "r", "e", "s", "s">>,
     product |-> <<"p", "r", "o", "d", "u", "c", "t">>,
     hsn |-> <<"h", "s", "n">>,
     sku |-> <<"s", "k", "u">>,
     size |-> <<"s", "i", "z", "e">>,
     color |-> <<"c", "o", "l", "o", "r">>,
     qty |-> <<"q", "t", "y">>,
     gross_amount |-> <<"g", "r", "o", "s", "s", "_", "a", "m", "o", "u", "n", "t">>,
     total_amount |-> <<"t", "o", "t", "a", "l", "_", "a", "m", "o", "u", "n", "t">>,
     added_at |-> <<"a", "d", "d", "e", "d", "_", "a", "t">>]

\* the column a field of the record is stored in
column(k) == Spelling[k]

\* SQLite compares column names without regard to the case of the letters A-Z
fold(c) == lower(c)

\* whether the table has the column an SQL statement names
has_column(cols, name) == \E c \in cols : fold(c) = fold(name)

\* lines 32-33: the index of the next expected column, from i on, that is not in
\* "existing" (Python's "not in": letter case counts), 0 if there is none
next_missing(exist, i) ==
    LET missing == {k \in i..Len(EXPECTED_COLUMNS) : column(EXPECTED_COLUMNS[k]) \notin exist}
    IN  IF missing = {} THEN 0 ELSE Min(missing)

\* ALTER TABLE ... ADD COLUMN: the rows that exist read NULL in a new column
with_columns(rs, cols) ==
    [i \in 1..Len(rs) |-> [c \in cols |-> IF c \in DOMAIN rs[i] THEN rs[i][c] ELSE NULL]]

\* lines 266-268: the columns the INSERT statement names
InsertColumns == {column(EXPECTED_COLUMNS[i]) : i \in 1..Len(EXPECTED_COLUMNS)}

\* the id of a row: the value of the column of line 24, however the table spells it
id_of(r) == r[CHOOSE c \in DOMAIN r : fold(c) = column("id")]

\* the largest id among the rows, 0 without rows
largest_id(rs) == IF Len(rs) = 0 THEN 0 ELSE Max({id_of(rs[i]) : i \in 1..Len(rs)})

\* the id of a row inserted without one.  AUTOINCREMENT: one more than the largest id
\* ever given; otherwise one more than the largest id in the table
next_id(rs, auto, seq) ==
    IF auto THEN Max({largest_id(rs), seq}) + 1 ELSE largest_id(rs) + 1

\* the field the INSERT stores in column c of the table
field_of(c) ==
    CHOOSE k \in {EXPECTED_COLUMNS[i] : i \in 1..Len(EXPECTED_COLUMNS)} : column(k) = fold(c)

\* lines 265-275: the row the INSERT adds
new_row(rs, cols, auto, seq, fields) ==
    [c \in cols |-> IF fold(c) = column("id") THEN next_id(rs, auto, seq)
                    ELSE IF fold(c) \in InsertColumns THEN fields[field_of(c)]
                    ELSE NULL]

----------------------------------------------------------------------------
(* The uploaded documents *)

\* what a section of a label may read; <<>> is a label without the section
PoSection ==
    {<<>>,
     <<"P", "u", "r", "c", "h", "a", "s", "e", " ", "O", "r", "d", "e", "r", " ", "N", "o", ".", " ", "1", "2", "3", "4", "5", "6", "7", "8", "9", "0", "1", "2">>,
     <<"P", "u", "r", "c", "h", "a", "s", "e", " ", "O", "r", "d", "e", "r", " ", "N", "o", ".", " ", "1", "2", "3">>,
     <<"R", "e", "f", " ", "1", "2", "3", "4", "5", "6", "7", "8", "9", "0", "1", "2", "3", "4", "5">>}

DateSection ==
    {<<>>,
     <<"O", "r", "d", "e", "r", " ", "D", "a", "t", "e", " ", "1", "2", "/", "0", "1", "/", "2", "0", "2", "4">>,
     <<"I", "n", "v", "o", "i", "c", "e", " ", "N", "o", ".", " ", "I", "N", "V", "-", "7", " ", "I", "n", "v", "o", "i", "c", "e", " ", "D", "a", "t", "e", " ", "1", "3", ".", "0", "1", ".", "2", "0", "2", "4">>,
     <<"O", "r", "d", "e", "r", " ", "D", "a", "t", "e", " ", "1", "2", "/", "0", "1", "/", "2", "0", "2", "4", "\n", "I", "n", "v", "o", "i", "c", "e", " ", "D", "a", "t", "e", " ", "2", "0", "2", "4", "-", "0", "1", "-", "1", "3">>}

CanonicalCustomer ==
    <<"C", "u", "s", "t", "o", "m", "e", "r", " ", "A", "d", "d", "r", "e", "s", "s", "\n", "R", "a", "v", "i", " ", "K", "u", "m", "a", "r", "\n", "1", "2", "3", " ", "M", "G", " ", "R", "o", "a", "d", "\n", "5", "6", "0", "0", "0", "1", "\n", "I", "f", " ", "u", "n", "d", "e", "l", "i", "v", "e", "r", "e", "d", " ", "c", "a", "l", "l", " ", "u", "s">>

CustomerSection ==
    {<<>>,
     CanonicalCustomer,
     <<"B", "I", "L", "L", " ", "T", "O", " ", "/", " ", "S", "H", "I", "P", " ", "T", "O", "\n", "A", "s", "h", "a", " ", "1", "2", ",", " ", "P", "a", "r", "k", " ", "L", "a", "n", "e", "\n", "C", "u", "s", "t", "o", "m", "e", "r", " ", "A", "d", "d", "r", "e", "s", "s", "\n", "P", "u", "n", "e", " ", "4", "1", "1", "0", "0", "1", "\n", "S", "o", "l", "d", " ", "b", "y", " ", "X">>}

SkuTitle == <<"S", "K", "U", " ", "S", "i", "z", "e", " ", "Q", "t", "y", " ", "C", "o", "l", "o", "r", " ", "O", "r", "d", "e", "r", " ", "N", "o", ".", "\n">>

SkuSection ==
    {<<>>,
     SkuTitle \o <<"A", "B", "C", " ", "F", "r", "e", "e", " ", "S", "i", "z", "e", " ", "4">>,
     SkuTitle \o <<"A", "B", "C", " ", "F", "r", "e", "e", " ", "S", "i", "z", "e", " ", "4", " ", "R", "e", "d", " ", "7", "7">>,
     SkuTitle \o <<"A", "B", "C", " ", "M", " ", "3", " ", "B", "l", "u", "e", " ", "7", "7">>,
     SkuTitle \o <<"A", "B", "C", " ", "M", " ", "N", "A", " ", "B", "l", "u", "e">>}

AmountSection ==
    {<<>>,
     <<"D", "e", "s", "c", "r", "i", "p", "t", "i", "o", "n", "\n", "C", "o", "t", "t", "o", "n", " ", "T", "-", "S", "h", "i", "r", "t", " ", "6", "1", "0", "9", "1", "0", " ", "2", " ", "R", "s", ".", "4", "9", "9", ".", "0", "0", "\n", "T", "o", "t", "a", "l", " ", "R", "s", ".", "4", "9", "9", ".", "0", "0">>,
     <<"D", "e", "s", "c", "r", "i", "p", "t", "i", "o", "n", "\n", "C", "o", "t", "t", "o", "n", " ", "T", "-", "S", "h", "i", "r", "t", " ", "6", "1", "0", "9", "1", "0", " ", "2", " ", "R", "s", ".", "4", "9", "9", ".", "0", "0">>,
     <<"D", "e", "s", "c", "r", "i", "p", "t", "i", "o", "n", "\n", "6", "1", "0", "9", "1", "0", " ", "1", " ", "R", "s", ".", " ", "2", "5", "0">>,
     <<"T", "o", "t", "a", "l", " ", "R", "s", " ", ",">>}

\* one page of a label: its sections, one per line
Pages ==
    {join(<<"\n">>, SelectSeq(<<po, dt, cu, sk, am>>, LAMBDA s : s # <<>>)) :
        po \in PoSection, dt \in DateSection, cu \in CustomerSection,
        sk \in SkuSection, am \in AmountSection}

\* the uploaded files: a file without pages, or one page
Files == {<<>>} \cup {<<p>> : p \in Pages}

\* lines 247-251: the text of the file's pages, each after a line feed
RECURSIVE extracted_text(_)
extracted_text(pages) ==
    IF Len(pages) = 0 THEN <<>>
    ELSE <<"\n">> \o pages[1] \o extracted_text(Tail(pages))

\* what datetime.utcnow().isoformat() may return
Timestamps == {<<"2", "0", "2", "4", "-", "0", "1", "-", "1", "2", "T", "1", "0", ":", "0", "0", ":", "0", "0">>, <<"2", "0", "2", "4", "-", "0", "1", "-", "1", "2", "T", "1", "0", ":", "0", "0", ":", "0", "1">>}

----------------------------------------------------------------------------
(* extract_from_text, step by step, on the text of every document *)

\* one caller
Caller == {1}

Init ==
    /\ \E f \in Files : text = [s \in Caller |-> extracted_text(f)]
    /\ pc = [s \in Caller |-> "customer_block"]
    /\ res = [s \in Caller |-> <<>>]
    /\ block = [s \in Caller |-> None]
    /\ status = [s \in Caller |-> "none"]
    /\ existing = [s \in Caller |-> {}]
    /\ col = [s \in Caller |-> 0]
    /\ start_tokens = CustomerStartTokens
    /\ end_tokens = CustomerEndTokens
    /\ columns = NoTable
    /\ rows = <<>>
    /\ autoincrement = FALSE
    /\ sequence = 0

\* line 74
LocateCustomer(s) ==
    /\ pc[s] = "customer_block"
    /\ block' = [block EXCEPT ![s] = find_block(text[s], start_tokens, end_tokens)]
    /\ pc' = [pc EXCEPT ![s] = "customer"]
    /\ UNCHANGED <<text, res, status, existing, col, tokens, db>>

Step(s, at, r, to) ==
    /\ pc[s] = at
    /\ res' = [res EXCEPT ![s] = r]
    /\ pc' = [pc EXCEPT ![s] = to]
    /\ UNCHANGED <<text, block, status, existing, col, tokens, db>>

\* lines 75-136, 142-143
Customer(s) == Step(s, "customer", customer_from_block(block[s]) @@ res[s], "purchase_order")

PurchaseOrder(s) == Step(s, "purchase_order", purchase_order_step(text[s], res[s]), "invoice_no")

InvoiceNo(s) == Step(s, "invoice_no", invoice_no_step(text[s], res[s]), "dates")

Dates(s) == Step(s, "dates", dates_step(text[s], res[s]), "sku")

Sku(s) == Step(s, "sku", sku_step(text[s], res[s]), "description")

DescriptionTable(s) == Step(s, "description", description_step(text[s], res[s]), "total")

Total(s) == Step(s, "total", total_step(text[s], res[s]), "normalize")

Normalize(s) == Step(s, "normalize", normalize_step(res[s]), "insert")

Extract(s) ==
    \/ LocateCustomer(s)
    \/ Customer(s)
    \/ PurchaseOrder(s)
    \/ InvoiceNo(s)
    \/ Dates(s)
    \/ Sku(s)
    \/ DescriptionTable(s)
    \/ Total(s)
    \/ Normalize(s)

Next == \E s \in Caller : Extract(s)

Spec == Init /\ [][Next]_vars

----------------------------------------------------------------------------
(* The script runs of the sessions of the app, all on the one file orders.db.  A   *)
(* session runs the script from its first line whenever one of its widgets changes; *)
(* the sessions run in threads of their own, so their statements interleave.        *)

MaxSessions == 2

MaxRows == 2

Sessions == 1..MaxSessions

\* line 24: CREATE TABLE IF NOT EXISTS orders (id INTEGER PRIMARY KEY AUTOINCREMENT)
CreateTable(s) ==
    /\ pc[s] = "boot"
    /\ columns' = IF columns = NoTable THEN {column("id")} ELSE columns
    /\ autoincrement' = IF columns = NoTable THEN TRUE ELSE autoincrement
    /\ pc' = [pc EXCEPT ![s] = "table_info"]
    /\ UNCHANGED <<run, tokens, rows, sequence>>

\* lines 28-29: PRAGMA table_info(orders)
TableInfo(s) ==
    /\ pc[s] = "table_info"
    /\ existing' = [existing EXCEPT ![s] = columns]
    /\ col' = [col EXCEPT ![s] = 1]
    /\ pc' = [pc EXCEPT ![s] = "add_columns"]
    /\ UNCHANGED <<text, res, block, status, tokens, db>>

\* lines 32-34: the loop up to its next ALTER TABLE, and that statement.  SQLite
\* raises "duplicate column name" when the table has the column, whatever its letter
\* case; the exception leaves init_db and ends the script run at line 38.
AddColumn(s) ==
    /\ pc[s] = "add_columns"
    /\ next_missing(existing[s], col[s]) # 0
    /\ LET i == next_missing(existing[s], col[s])
       IN  IF has_column(columns, column(EXPECTED_COLUMNS[i]))
           THEN /\ pc' = [pc EXCEPT ![s] = "stopped"]
                /\ existing' = [existing EXCEPT ![s] = {}]
                /\ col' = [col EXCEPT ![s] = 0]
                /\ UNCHANGED <<columns, rows>>
           ELSE /\ columns' = columns \cup {column(EXPECTED_COLUMNS[i])}
                /\ rows' = with_columns(rows, columns \cup {column(EXPECTED_COLUMNS[i])})
                /\ col' = [col EXCEPT ![s] = i + 1]
                /\ UNCHANGED <<pc, existing>>
    /\ UNCHANGED <<text, res, block, status, tokens, autoincrement, sequence>>

\* lines 32-36, 246: the loop finds no further column to add and init_db returns
Connected(s) ==
    /\ pc[s] = "add_columns"
    /\ next_missing(existing[s], col[s]) = 0
    /\ pc' = [pc EXCEPT ![s] = IF text[s] = None THEN "listing" ELSE "customer_block"]
    /\ existing' = [existing EXCEPT ![s] = {}]
    /\ col' = [col EXCEPT ![s] = 0]
    /\ UNCHANGED <<text, res, block, status, tokens, db>>

\* lines 258-279.  The INSERT raises when it names a column the table lacks; it may
\* also raise for reasons outside the program (a locked or full database).
Insert(s) ==
    /\ pc[s] = "insert"
    /\ \E ts \in Timestamps :
        /\ res' = [res EXCEPT ![s] = put(res[s], "added_at", ts)]
        /\ \/ /\ \A c \in InsertColumns : has_column(columns, c)
              /\ rows' = Append(rows, new_row(rows, columns, autoincrement, sequence,
                                              put(res[s], "added_at", ts)))
              /\ sequence' = IF autoincrement
                             THEN next_id(rows, autoincrement, sequence) ELSE sequence
              /\ status' = [status EXCEPT ![s] = "saved"]
           \/ /\ UNCHANGED <<rows, sequence>>
              /\ status' = [status EXCEPT ![s] = "error"]
    /\ pc' = [pc EXCEPT ![s] = "listing"]
    /\ UNCHANGED <<text, block, existing, col, tokens, columns, autoincrement>>

\* the script runs under way that end with an INSERT
pending == Cardinality({s \in DOMAIN pc : text[s] # None /\ pc[s] \notin {"listing", "stopped"}})

\* the script starts again in session s, which has file text t
restart(s, t) ==
    /\ pc[s] \in {"listing", "stopped"}
    /\ t # None => Len(rows) + pending < MaxRows
    /\ text' = [text EXCEPT ![s] = t]
    /\ pc' = [pc EXCEPT ![s] = "boot"]
    /\ res' = [res EXCEPT ![s] = <<>>]
    /\ block' = [block EXCEPT ![s] = None]
    /\ status' = [status EXCEPT ![s] = "none"]
    /\ UNCHANGED <<existing, col, tokens, db>>

\* lines 243, 247-251: the user gives the uploader a file, another file, or none
Upload(s, files) ==
    \E t \in {None} \cup {extracted_text(f) : f \in files} :
        /\ t # text[s]
        /\ restart(s, t)

\* line 244: another widget changes, the script runs again with the same file
Rerun(s) == restart(s, text[s])

\* the columns an earlier version of EXPECTED_COLUMNS created: the list grows at its end
older_schema(k) == {column("id")} \cup {column(EXPECTED_COLUMNS[i]) : i \in 1..k}

\* a column an earlier version had and this one no longer names
Deprecated == {<<"c", "o", "u", "r", "i", "e", "r">>}

OldValue == <<"o", "l", "d">>

\* the row with id 1 of a table
old_row(cols) == [c \in cols |-> IF fold(c) = column("id") THEN 1 ELSE OldValue]

\* tables the app left.  Of the version whose list ended at "customer", with the
\* deprecated column: empty or with row 1, rows deleted after it or not.  Of this
\* version: empty or with row 1
AppTables ==
    LET was == older_schema(5) \cup Deprecated
        now == older_schema(Len(EXPECTED_COLUMNS))
    IN  UNION {{[columns |-> was, rows |-> rs, autoincrement |-> TRUE, sequence |-> seq] :
                   seq \in {largest_id(rs), largest_id(rs) + 2}} :
               rs \in {<<>>, <<old_row(was)>>}}
        \cup {[columns |-> now, rows |-> rs, autoincrement |-> TRUE,
               sequence |-> largest_id(rs)] : rs \in {<<>>, <<old_row(now)>>}}

\* str.upper
upper(s) ==
    [i \in 1..Len(s) |->
        IF \E n \in 1..Len(LowerSeq) : LowerSeq[n] = s[i]
        THEN UpperSeq[CHOOSE n \in 1..Len(LowerSeq) : LowerSeq[n] = s[i]] ELSE s[i]]

\* tables made by other means: id without AUTOINCREMENT, and names in other letter case
OtherTables ==
    {[columns |-> {column("id"), column("customer")},
      rows |-> <<old_row({column("id"), column("customer")})>>,
      autoincrement |-> FALSE, sequence |-> 0],
     [columns |-> {column("id"), <<"C", "u", "s", "t", "o", "m", "e", "r">>}, rows |-> <<>>,
      autoincrement |-> TRUE, sequence |-> 0],
     [columns |-> {upper(column("id")), column("customer"), <<"Q", "t", "y">>},
      rows |-> <<old_row({upper(column("id")), column("customer"), <<"Q", "t", "y">>})>>,
      autoincrement |-> TRUE, sequence |-> 1],
     [columns |-> {column("id")} \cup {upper(c) : c \in InsertColumns}, rows |-> <<>>,
      autoincrement |-> TRUE, sequence |-> 0]}

Tables ==
    {[columns |-> NoTable, rows |-> <<>>, autoincrement |-> FALSE, sequence |-> 0]}
        \cup AppTables \cup OtherTables

\* every session opens the app, no file chosen, over a database file in any state
InitDB ==
    /\ text = [s \in Sessions |-> None]
    /\ pc = [s \in Sessions |-> "boot"]
    /\ res = [s \in Sessions |-> <<>>]
    /\ block = [s \in Sessions |-> None]
    /\ status = [s \in Sessions |-> "none"]
    /\ existing = [s \in Sessions |-> {}]
    /\ col = [s \in Sessions |-> 0]
    /\ start_tokens = CustomerStartTokens
    /\ end_tokens = CustomerEndTokens
    /\ \E tb \in Tables :
        /\ columns = tb.columns
        /\ rows = tb.rows
        /\ autoincrement = tb.autoincrement
        /\ sequence = tb.sequence

\* the files the sessions upload: two files of one page
DbFiles ==
    {<<<<"C", "u", "s", "t", "o", "m", "e", "r", " ", "A", "d", "d", "r", "e", "s", "s", "\n", "R", "a", "v", "i", " ", "K", "u", "m", "a", "r", "\n", "5", "6", "0", "0", "0", "1", "\n", "T", "o", "t", "a", "l", " ", "R", "s", ".", "5">>>>,
     <<<<"T", "o", "t", "a", "l", " ", "R", "s", ".", "9">>>>}

UploadDbFile(s) == Upload(s, DbFiles)

InitDb(s) == CreateTable(s) \/ TableInfo(s) \/ AddColumn(s) \/ Connected(s)

NextDB == \E s \in Sessions : InitDb(s) \/ UploadDbFile(s) \/ Rerun(s) \/ Extract(s) \/ Insert(s)

SpecDB == InitDB /\ [][NextDB]_vars

----------------------------------------------------------------------------
(* find_block on every short text, with marker lists in every order *)

MaxLen == 5

FBChars == {"a", "b", "B"}

RECURSIVE SeqsUpTo(_, _)
SeqsUpTo(S, n) ==
    IF n = 0 THEN {<<>>}
    ELSE LET shorter == SeqsUpTo(S, n - 1)
         IN  shorter \cup {Append(s, c) : s \in shorter, c \in S}

FBTexts == SeqsUpTo(FBChars, MaxLen)

FBStartLists ==
    {<<>>, <<<<"a">>>>, <<<<"b", "a">>>>, <<<<"a">>, <<"b", "a">>>>, <<<<"b", "a">>, <<"a">>>>,
     <<<<"A", "B">>, <<"b">>>>, <<<<"b">>, <<"a", "b">>>>, <<<<"b", "b">>, <<"a", "a">>, <<"a", "b">>>>}

FBEndLists ==
    {<<>>, <<<<"b">>>>, <<<<"a">>>>, <<<<"b", "b">>, <<"a">>>>, <<<<"B", "A">>>>}

InitFB ==
    /\ \E t \in FBTexts : text = [s \in Caller |-> t]
    /\ start_tokens \in FBStartLists
    /\ end_tokens \in FBEndLists
    /\ pc = [s \in Caller |-> "locate"]
    /\ res = [s \in Caller |-> <<>>]
    /\ block = [s \in Caller |-> None]
    /\ status = [s \in Caller |-> "none"]
    /\ existing = [s \in Caller |-> {}]
    /\ col = [s \in Caller |-> 0]
    /\ columns = NoTable
    /\ rows = <<>>
    /\ autoincrement = FALSE
    /\ sequence = 0

Locate(s) ==
    /\ pc[s] = "locate"
    /\ block' = [block EXCEPT ![s] = find_block(text[s], start_tokens, end_tokens)]
    /\ pc' = [pc EXCEPT ![s] = "located"]
    /\ UNCHANGED <<text, res, status, existing, col, tokens, db>>

NextFB == \E s \in Caller : Locate(s)

SpecFB == InitFB /\ [][NextFB]_vars

----------------------------------------------------------------------------
(* Properties of extract_from_text (specification Spec) *)

Fields == {EXPECTED_COLUMNS[i] : i \in 1..Len(EXPECTED_COLUMNS)}

\* extract_from_text has returned in s: res[s] is the record, added_at not yet stamped
Returned(s) == pc[s] = "insert"

\* C1 (totality): the returned record has exactly the schema's field names and every
\* value is a non-empty value or "NA".
C1_Totality ==
    \A s \in DOMAIN pc :
        Returned(s) => /\ DOMAIN res[s] = Fields
                       /\ \A k \in Fields : res[s][k] # <<>>

\* what the SKU-table line alone gives as quantity, None if it gives none
SkuQty(t) ==
    LET r == sku_step(t, <<>>) IN IF "qty" \in DOMAIN r THEN r["qty"] ELSE None

\* what the first line-item row alone gives as quantity, None if there is none
ItemQty(t) ==
    LET r == description_step(t, <<>>) IN IF "qty" \in DOMAIN r THEN r["qty"] ELSE None

\* C2 (quantity precedence): nothing sets qty or a line-item field before the SKU
\* extractor runs; the line-item extractor runs after it; and in the returned record
\* qty is the SKU-table quantity whenever that is set and not "NA", the line-item
\* quantity only otherwise.
C2_QuantityPrecedence ==
    \A s \in DOMAIN pc :
        /\ pc[s] = "sku" => DOMAIN res[s] \cap {"qty", "product", "hsn", "gross_amount"} = {}
        /\ pc[s] = "description" =>
              /\ "product" \notin DOMAIN res[s]
              /\ ("qty" \in DOMAIN res[s]) = (SkuQty(text[s]) # None)
        /\ Returned(s) =>
              /\ SkuQty(text[s]) \notin {None, NA} => res[s]["qty"] = SkuQty(text[s])
              /\ (SkuQty(text[s]) \in {None, NA} /\ ItemQty(text[s]) # None) =>
                    res[s]["qty"] = ItemQty(text[s])
              /\ (SkuQty(text[s]) = None /\ ItemQty(text[s]) = None) => res[s]["qty"] = NA

\* C2 witness: both quantities are present and differ, and the SKU-table one is returned
C2_Witness ==
    \E s \in DOMAIN pc :
        /\ Returned(s)
        /\ SkuQty(text[s]) \notin {None, NA}
        /\ ItemQty(text[s]) \notin {None, SkuQty(text[s])}
        /\ res[s]["qty"] = SkuQty(text[s])

\* C3 (customer name in the canonical layout): with the marker line, the name line,
\* the address lines, the postal-code line and the end marker, customer is the name
\* line, never the marker text, and address holds the lines after the name.
C3_CanonicalCustomer ==
    \A s \in DOMAIN pc :
        (Returned(s) /\ contains(text[s], CanonicalCustomer)) =>
            /\ res[s]["customer"] = <<"R", "a", "v", "i", " ", "K", "u", "m", "a", "r">>
            /\ res[s]["customer"] # <<"C", "u", "s", "t", "o", "m", "e", "r", " ", "A", "d", "d", "r", "e", "s", "s">>
            /\ contains(res[s]["address"], <<"1", "2", "3", " ", "M", "G", " ", "R", "o", "a", "d", " ", "5", "6", "0", "0", "0", "1">>)

\* the positions of the date-shaped tokens of a text
DateTokens(t) == {i \in 1..Len(t) : date_at(t, i) # 0}

InvoiceDateLabel == <<"i", "n", "v", "o", "i", "c", "e", " ", "d", "a", "t", "e">>

OrderDateLabel == <<"o", "r", "d", "e", "r", " ", "d", "a", "t", "e">>

\* C4 (date independence): a text whose only date follows an "Invoice Date" label
\* gives invoice_date that date and order_date "NA"; a text whose only date follows an
\* "Order Date" label gives invoice_date "NA".
C4_DateIndependence ==
    \A s \in DOMAIN pc :
        (Returned(s) /\ Cardinality(DateTokens(text[s])) = 1) =>
            /\ (labelled_date(text[s], InvoiceDateLabel) # None) =>
                  /\ res[s]["invoice_date"] = labelled_date(text[s], InvoiceDateLabel)
                  /\ res[s]["order_date"] = NA
            /\ (labelled_date(text[s], OrderDateLabel) # None) =>
                  /\ res[s]["order_date"] = labelled_date(text[s], OrderDateLabel)
                  /\ res[s]["invoice_date"] = NA

\* C5 (sentinel correctness): the empty text gives "NA" in every field of the schema,
\* and a text without a customer block gives customer and address "NA".
C5_EmptyText ==
    \A s \in DOMAIN pc :
        /\ (Returned(s) /\ text[s] = <<>>) =>
              /\ DOMAIN res[s] = Fields
              /\ \A k \in Fields : res[s][k] = NA
        /\ (pc[s] = "purchase_order" /\ block[s] = None) =>
              /\ res[s]["customer"] = NA
              /\ res[s]["address"] = NA

\* C5 witness: the record of the empty text has been returned
C5_Witness ==
    \E s \in DOMAIN pc :
        Returned(s) /\ text[s] = <<>> /\ res[s]["total_amount"] = NA /\ res[s]["customer"] = NA

\* C8 (purchase order number shape): purchase_order_no is "NA" or 12 to 24 digits.
C8_PurchaseOrderShape ==
    \A s \in DOMAIN pc :
        Returned(s) =>
            \/ res[s]["purchase_order_no"] = NA
            \/ /\ Len(res[s]["purchase_order_no"]) \in 12..24
               /\ \A i \in 1..Len(res[s]["purchase_order_no"]) :
                     res[s]["purchase_order_no"][i] \in Digit

\* the tokens of the SKU-table line, <<>> if there is none
SkuParts(t) == IF sku_block(t) = None THEN <<>> ELSE split(sku_block(t))

\* C9 (Free Size merge): when the SKU-table line has "Free" and "Size" as its second
\* and third tokens, size is "Free Size", qty the fourth token and color the fifth
\* when there is one, for every token count from four on.
C9_FreeSize ==
    \A s \in DOMAIN pc :
        (/\ Returned(s)
         /\ Len(SkuParts(text[s])) >= 4
         /\ lower(SkuParts(text[s])[2]) = <<"f", "r", "e", "e">>
         /\ lower(SkuParts(text[s])[3]) = <<"s", "i", "z", "e">>) =>
            /\ res[s]["size"] = <<"F", "r", "e", "e", " ", "S", "i", "z", "e">>
            /\ res[s]["qty"] = SkuParts(text[s])[4]
            /\ Len(SkuParts(text[s])) >= 5 => res[s]["color"] = SkuParts(text[s])[5]

----------------------------------------------------------------------------
(* Properties of find_block (specification SpecFB) *)

\* marker tok occurs in t at position i, case ignored
occurs_ci_at(t, tok, i) ==
    /\ i + Len(tok) - 1 <= Len(t)
    /\ \A n \in 1..Len(tok) : lower_char(t[i + n - 1]) = lower_char(tok[n])

occurs_ci(t, tok) == \E i \in 1..Len(t) : occurs_ci_at(t, tok, i)

first_ci(t, tok) == Min({i \in 1..Len(t) : occurs_ci_at(t, tok, i)})

\* the list entries that occur in the text
Present(t) == {k \in 1..Len(start_tokens) : occurs_ci(t, start_tokens[k])}

\* C6 (block precedence): the block starts at the first occurrence of the earliest
\* list entry that occurs anywhere in the text, wherever later entries occur.
C6_BlockPrecedence ==
    \A s \in DOMAIN pc :
        (pc[s] = "located" /\ Present(text[s]) # {}) =>
            /\ block[s] # None
            /\ LET a == first_ci(text[s], start_tokens[Min(Present(text[s]))])
               IN  \E e \in a..(Len(text[s]) + 1) : block[s] = Slice(text[s], a, e)

\* C6 witness: a later list entry occurs earlier in the text than the entry chosen
C6_Witness ==
    \E s \in DOMAIN pc :
        /\ pc[s] = "located"
        /\ Present(text[s]) # {}
        /\ \E k \in Present(text[s]) :
              first_ci(text[s], start_tokens[k])
                  < first_ci(text[s], start_tokens[Min(Present(text[s]))])
        /\ block[s] # None
        /\ block[s] # <<>>

\* C7 (block bounds): absent exactly when no start marker occurs; otherwise the text
\* from the end of the chosen start marker to the nearest end marker at or after it.
C7_BlockBounds ==
    \A s \in DOMAIN pc :
        pc[s] = "located" =>
            IF Present(text[s]) = {} THEN block[s] = None
            ELSE LET tok == start_tokens[Min(Present(text[s]))]
                     a == first_ci(text[s], tok) + Len(tok)
                     ends == {i \in a..Len(text[s]) :
                                 \E k \in 1..Len(end_tokens) :
                                     occurs_ci_at(text[s], end_tokens[k], i)}
                 IN  block[s] = Slice(text[s], a, Min(ends \cup {Len(text[s]) + 1}))

----------------------------------------------------------------------------
(* Properties of init_db and the insert (specification SpecDB) *)

\* init_db has ended in session s, by returning or by raising
Ended(s) == pc[s] \notin {"boot", "table_info", "add_columns"}

\* C10 (schema reconciliation): from any table, init_db only adds columns and keeps
\* the rows, leaves every expected column present, adds nothing when run again; every
\* key of the record with added_at is a column when the insert runs; an insert that
\* fails is reported and leaves the record as extracted.
C10_StatePart ==
    \A s \in DOMAIN pc :
        /\ Ended(s) => \A k \in Fields : has_column(columns, column(k))
        /\ pc[s] = "insert" =>
              \A k \in DOMAIN res[s] \cup {"added_at"} : has_column(columns, column(k))
        /\ status[s] = "error" =>
              /\ pc[s] = "listing"
              /\ \E ts \in Timestamps :
                    res[s] = put(extract_from_text(text[s]), "added_at", ts)

C10_ActionPart ==
    /\ columns \subseteq columns'
    /\ (\A k \in Fields : has_column(columns, column(k))) => columns' = columns
    /\ Len(rows') >= Len(rows)
    /\ \A i \in 1..Len(rows) : \A c \in DOMAIN rows[i] : rows'[i][c] = rows[i][c]

C10_SchemaReconciliation == [](C10_StatePart) /\ [][C10_ActionPart]_vars

====
